---- MODULE Spec2Model ----
(***************************************************************************)
(* Model of the hybrid chatbot of src/main.py: the intent classifier, the  *)
(* DFA and PDA checkers, the bounded dialogue history and the chat         *)
(* orchestrator, sequential and shared between concurrent requests.        *)
(* A text is a sequence of one-character strings.                          *)
(***************************************************************************)
EXTENDS Integers, Sequences, FiniteSets, TLC

VARIABLES
    history,    \* DialogueManager.history: the deque of Turns, oldest first
    clock,      \* number of Turns ever appended; the timestamp of the next Turn
    added,      \* ghost: every Turn added since creation or the last clear
    available,  \* PerplexityClient.is_available() of the chatbot instance
    ncalls,     \* calls made so far in the run
    nvaried,    \* calls so far that were not filler calls
    lastOp,     \* the operation performed last
    lastText,   \* argument of the last chat call
    lastReply,  \* "response" of the last chat call
    req,        \* concurrent requests: per request its position, text and reply
    fn_name,    \* pure-function harness: the function under test
    fn_in,      \* its argument
    fn_out,     \* its result
    fn_pc       \* "ready" before the call, "done" after it

vars == <<history, clock, added, available, ncalls, nvaried, lastOp, lastText,
          lastReply, req, fn_name, fn_in, fn_out, fn_pc>>

dmVars == <<history, clock, added>>
callVars == <<ncalls, nvaried, lastOp, lastText, lastReply>>
fnVars == <<fn_name, fn_in, fn_out, fn_pc>>

-----------------------------------------------------------------------------
(* Texts                                                                   *)

\* the whitespace str.strip() and \s remove
Whitespace == {" ", "\n", "\t"}

\* str.lower() on one character
LowerChar(c) ==
    CASE c = "A" -> "a" [] c = "C" -> "c" [] c = "D" -> "d" [] c = "E" -> "e"
      [] c = "F" -> "f" [] c = "G" -> "g" [] c = "H" -> "h" [] c = "I" -> "i"
      [] c = "L" -> "l" [] c = "N" -> "n" [] c = "P" -> "p" [] c = "R" -> "r"
      [] c = "S" -> "s" [] c = "T" -> "t" [] c = "X" -> "x" [] c = "Y" -> "y"
      [] OTHER -> c

lower(s) == [i \in 1..Len(s) |-> LowerChar(s[i])]

RECURSIVE lstrip(_)
lstrip(s) ==
    IF s = <<>> THEN s
    ELSE IF Head(s) \in Whitespace THEN lstrip(Tail(s)) ELSE s

RECURSIVE rstrip(_)
rstrip(s) ==
    IF s = <<>> THEN s
    ELSE IF s[Len(s)] \in Whitespace THEN rstrip(SubSeq(s, 1, Len(s) - 1)) ELSE s

strip(s) == rstrip(lstrip(s))

startswith(s, p) == Len(s) >= Len(p) /\ SubSeq(s, 1, Len(p)) = p

endswith(s, p) == Len(s) >= Len(p) /\ SubSeq(s, Len(s) - Len(p) + 1, Len(s)) = p

\* p in s
contains(s, p) ==
    \E i \in 1..(Len(s) - Len(p) + 1) : SubSeq(s, i, i + Len(p) - 1) = p

\* index of the first occurrence of character c in s, 0 when there is none
find(s, c) ==
    IF \E i \in 1..Len(s) : s[i] = c
    THEN CHOOSE i \in 1..Len(s) : s[i] = c /\ \A j \in 1..(i - 1) : s[j] # c
    ELSE 0

\* s.split(c, 1)[1] for an s that holds c: the text after the first c
afterFirst(s, c) == SubSeq(s, find(s, c) + 1, Len(s))

\* s.split(c)[0]: the text before the first c, all of s when there is none
beforeFirst(s, c) == IF find(s, c) = 0 THEN s ELSE SubSeq(s, 1, find(s, c) - 1)

\* c.join(s.split(c)[1:]): the text after the first c, empty when there is none
restAfter(s, c) == IF find(s, c) = 0 THEN <<>> ELSE afterFirst(s, c)

RECURSIVE Flatten(_)
Flatten(ss) == IF ss = <<>> THEN <<>> ELSE Head(ss) \o Flatten(Tail(ss))

\* the sequences over S of length at most n
SeqUpTo(S, n) == UNION {[1..k -> S] : k \in 0..n}

T_help == <<"h", "e", "l", "p">>
T_clear == <<"c", "l", "e", "a", "r">>
T_daily == <<"d", "a", "i", "l", "y", " ", "c", "o", "n", "v", "e", "r", "s", "a", "t", "i", "o", "n">>
T_everyday == <<"e", "v", "e", "r", "y", "d", "a", "y", " ", "c", "h", "a", "t">>
T_parse == <<"p", "a", "r", "s", "e", ":">>
T_dfa == <<"d", "f", "a", ":">>
T_pda == <<"p", "d", "a", ":">>
T_regex == <<"r", "e", "g", "e", "x", ":">>
T_string == <<"s", "t", "r", "i", "n", "g">>

-----------------------------------------------------------------------------
(* SpecializedEngine                                                       *)

R_Invalid == "Invalid input: use only 0 and 1"
R_Accepted == "Accepted"
R_Rejected == "Rejected"
R_Balanced == "Balanced"
R_Unbalanced == "Unbalanced"

\* re.fullmatch(r"[01]+", binary)
fullmatch01(binary) ==
    Len(binary) >= 1 /\ \A i \in 1..Len(binary) : binary[i] \in {"0", "1"}

check_dfa_ends_01(binary) ==
    IF ~fullmatch01(binary) THEN R_Invalid
    ELSE IF endswith(binary, <<"0", "1">>) THEN R_Accepted ELSE R_Rejected

\* the loop of check_pda_balanced from character i on, with the stack as it is
RECURSIVE pdaScan(_, _, _)
pdaScan(expr, i, stack) ==
    IF i > Len(expr) THEN (IF stack = <<>> THEN R_Balanced ELSE R_Unbalanced)
    ELSE IF expr[i] = "(" THEN pdaScan(expr, i + 1, Append(stack, expr[i]))
    ELSE IF expr[i] = ")"
         THEN (IF stack = <<>> THEN R_Unbalanced
               ELSE pdaScan(expr, i + 1, SubSeq(stack, 1, Len(stack) - 1)))
    ELSE pdaScan(expr, i + 1, stack)

\* mutant: the parentheses are counted, their order is not looked at
check_pda_counted(expr) ==
    IF Cardinality({i \in 1..Len(expr) : expr[i] = "("})
         = Cardinality({i \in 1..Len(expr) : expr[i] = ")"})
    THEN R_Balanced ELSE R_Unbalanced

check_pda_balanced(expr) == pdaScan(expr, 1, <<>>)

\* what parse_sentence can return for a non-empty sentence: the verdict rests
\* on the tagger when it is loaded and on the word heuristic otherwise
ParseVerdicts ==
    {"Valid English sentence.", "Likely valid sentence.", "Grammatically incorrect.",
     "Too short to be valid.", "Probably valid English sentence.",
     "Seems incomplete or incorrect."}

parse_sentence(sentence) ==
    IF strip(sentence) = <<>> THEN {"Empty sentence."} ELSE ParseVerdicts

\* what test_regex can return: the verdict of the regular-expression library
test_regex(pattern, text) == {"Match", "No match", "Regex error"}

\* what evaluate_math can return: the evaluator's value or its error
evaluate_math(expr) == {"Result", "Math error"}

-----------------------------------------------------------------------------
(* IntentClassifier                                                        *)

Digits == {"0", "1", "2", "3", "4", "5", "6", "7", "8", "9"}

\* the character class of the arithmetic pattern
MathChars == Digits \cup {"+", "-", "*", "/", "(", ")", ".", "^", " ", "%"}

\* re.match(r"^[\d\+\-\*/\(\)\.\^ %]+$", l) on a stripped l
mathMatch(l) == Len(l) >= 1 /\ \A i \in 1..Len(l) : l[i] \in MathChars

\* index of the first character of s at or after i that is not whitespace
RECURSIVE skipSpace(_, _)
skipSpace(s, i) ==
    IF i <= Len(s) /\ s[i] \in Whitespace THEN skipSpace(s, i + 1) ELSE i

\* "string\s*:" matches in s at index i, ignoring case
stringAt(s, i) ==
    /\ i + Len(T_string) - 1 <= Len(s)
    /\ lower(SubSeq(s, i, i + Len(T_string) - 1)) = T_string
    /\ skipSpace(s, i + Len(T_string)) <= Len(s)
    /\ s[skipSpace(s, i + Len(T_string))] = ":"

\* mutant: the search takes the last match
stringSearch_last(s) ==
    IF \E i \in 1..Len(s) : stringAt(s, i)
    THEN CHOOSE i \in 1..Len(s) : stringAt(s, i) /\ \A j \in (i + 1)..Len(s) : ~stringAt(s, j)
    ELSE 0

\* the start of the match re.search finds: the leftmost one; 0 when none
stringSearch(s) ==
    IF \E i \in 1..Len(s) : stringAt(s, i)
    THEN CHOOSE i \in 1..Len(s) : stringAt(s, i) /\ \A j \in 1..(i - 1) : ~stringAt(s, j)
    ELSE 0

\* m.group(1) of re.search(r"string\s*:\s*(.*)\Z", rest, IGNORECASE | DOTALL)
stringGroup(rest) ==
    LET i == stringSearch(rest)
        colon == skipSpace(rest, i + Len(T_string))
        from == skipSpace(rest, colon + 1)
    IN  SubSeq(rest, from, Len(rest))

\* the regex branch of classify
classifyRegex(t) ==
    LET tail == afterFirst(t, ":")
        pattern == strip(beforeFirst(tail, ";"))
        rest == restAfter(tail, ";")
        s == IF stringSearch(rest) # 0 THEN strip(stringGroup(rest)) ELSE <<>>
    IN  [intent |-> "regex", params |-> [pattern |-> pattern, string |-> s]]

\* mutant: the prefix "parse:" is tested before the daily phrases
classify_parseFirst(text) ==
    LET t == strip(text)
        l == lower(t)
    IN  IF l = T_help THEN [intent |-> "help", params |-> <<>>]
        ELSE IF l = T_clear THEN [intent |-> "command", params |-> [cmd |-> "clear"]]
        ELSE IF startswith(l, T_parse)
             THEN [intent |-> "parse", params |-> [sentence |-> strip(afterFirst(t, ":"))]]
        ELSE IF contains(l, T_daily) \/ contains(l, T_everyday)
             THEN [intent |-> "daily", params |-> [message |-> t]]
        ELSE IF startswith(l, T_dfa)
             THEN [intent |-> "dfa", params |-> [input |-> strip(afterFirst(t, ":"))]]
        ELSE IF startswith(l, T_pda)
             THEN [intent |-> "pda", params |-> [input |-> strip(afterFirst(t, ":"))]]
        ELSE IF startswith(l, T_regex) THEN classifyRegex(t)
        ELSE IF mathMatch(l) THEN [intent |-> "math", params |-> [expression |-> t]]
        ELSE [intent |-> "general", params |-> <<>>]

classify(text) ==
    LET t == strip(text)
        l == lower(t)
    IN  IF l = T_help THEN [intent |-> "help", params |-> <<>>]
        ELSE IF l = T_clear THEN [intent |-> "command", params |-> [cmd |-> "clear"]]
        ELSE IF contains(l, T_daily) \/ contains(l, T_everyday)
             THEN [intent |-> "daily", params |-> [message |-> t]]
        ELSE IF startswith(l, T_parse)
             THEN [intent |-> "parse", params |-> [sentence |-> strip(afterFirst(t, ":"))]]
        ELSE IF startswith(l, T_dfa)
             THEN [intent |-> "dfa", params |-> [input |-> strip(afterFirst(t, ":"))]]
        ELSE IF startswith(l, T_pda)
             THEN [intent |-> "pda", params |-> [input |-> strip(afterFirst(t, ":"))]]
        ELSE IF startswith(l, T_regex) THEN classifyRegex(t)
        ELSE IF mathMatch(l) THEN [intent |-> "math", params |-> [expression |-> t]]
        ELSE [intent |-> "general", params |-> <<>>]

-----------------------------------------------------------------------------
(* DialogueManager                                                         *)

\* mutant: an odd capacity
maxlen_odd == 30 - 1

\* deque(maxlen=30)
maxlen == 30

\* a Turn; the timestamp is the reading of a clock that ticks at every add
Turn(role, message, timestamp) ==
    [role |-> role, message |-> message, timestamp |-> timestamp]

\* mutant: a list without a bound
dequeAppend_unbounded(h, turn) == Append(h, turn)

\* deque.append on a bounded deque: at capacity the oldest entry is dropped
dequeAppend(h, turn) ==
    IF Len(h) >= maxlen THEN Append(Tail(h), turn) ELSE Append(h, turn)

\* DialogueManager.add: the history after add(role, message) at time now
add(h, role, message, now) == dequeAppend(h, Turn(role, message, now))

\* DialogueManager.get_history: a copy of the deque as a list
get_history == history

\* DialogueManager.clear
clear(h) == <<>>

-----------------------------------------------------------------------------
(* PerplexityClient and HybridChatbot                                      *)

R_NotAvailable == "Perplexity API not available or key missing."
R_NotConfigured == "Perplexity API not configured. Set PERPLEXITY_API_KEY."
R_NoContent == "No message content in API response."
R_ApiError == "API error"
R_Exception == "Exception while calling Perplexity"
R_NoRespond == "External API did not respond."
R_Cleared == "Conversation cleared"
R_Help == "Help"
R_Fallback == "Local Tools"
R_LLM == "reply of the model"
R_Empty == ""

\* what PerplexityClient.chat can return: the content of the first choice
\* (empty or not), or the diagnostic of a response without choices, of a
\* status other than 200, or of an exception raised by the call
perplexity_chat(isAvailable) ==
    IF ~isAvailable THEN {R_NotAvailable}
    ELSE {R_LLM, R_Empty, R_NoContent, R_ApiError, R_Exception}

\* mutant: the client is called whether it is available or not
dailyReplies_unguarded(isAvailable) ==
    {IF reply = R_Empty THEN R_NoRespond ELSE reply : reply \in perplexity_chat(isAvailable)}

\* the replies the daily branch of HybridChatbot.chat can give
dailyReplies(isAvailable) ==
    IF isAvailable
    THEN {IF reply = R_Empty THEN R_NoRespond ELSE reply : reply \in perplexity_chat(isAvailable)}
    ELSE {R_NotConfigured}

\* the replies HybridChatbot.chat(text) can return
chatReplies(text, isAvailable) ==
    LET c == classify(text)
    IN  CASE c.intent = "command" -> {R_Cleared}
          [] c.intent = "help" -> {R_Help}
          [] c.intent = "daily" -> dailyReplies(isAvailable)
          [] c.intent = "parse" -> parse_sentence(c.params.sentence)
          [] c.intent = "dfa" -> {check_dfa_ends_01(c.params.input)}
          [] c.intent = "pda" -> {check_pda_balanced(c.params.input)}
          [] c.intent = "regex" -> test_regex(c.params.pattern, c.params.string)
          [] c.intent = "math" -> evaluate_math(c.params.expression)
          [] OTHER -> {R_Fallback}

\* mutant: the reply is recorded before the text
chatHistory_swapped(h, text, reply, now) ==
    LET c == classify(text)
    IN  IF c.intent = "command" /\ c.params.cmd = "clear" THEN clear(h)
        ELSE IF c.intent = "help" THEN h
        ELSE add(add(h, "assistant", reply, now), "user", text, now + 1)

\* mutant: help is recorded like any other text
chatHistory_helpRecorded(h, text, reply, now) ==
    LET c == classify(text)
    IN  IF c.intent = "command" /\ c.params.cmd = "clear" THEN clear(h)
        ELSE add(add(h, "user", text, now), "assistant", reply, now + 1)

\* the history after HybridChatbot.chat(text) has returned reply, the call
\* having started with history h at time now
chatHistory(h, text, reply, now) ==
    LET c == classify(text)
    IN  IF c.intent = "command" /\ c.params.cmd = "clear" THEN clear(h)
        ELSE IF c.intent = "help" THEN h
        ELSE add(add(h, "user", text, now), "assistant", reply, now + 1)

\* the Turns added since the last clear, after chat(text) has returned reply
chatAdded(a, text, reply, now) ==
    LET c == classify(text)
    IN  IF c.intent = "command" THEN <<>>
        ELSE IF c.intent = "help" THEN a
        ELSE a \o <<Turn("user", text, now), Turn("assistant", reply, now + 1)>>

-----------------------------------------------------------------------------
(* The pure functions, each applied once to an argument drawn at the start *)

MaxLen == 5          \* longest argument of the DFA and PDA checkers
MaxTokens == 3       \* most fragments in an argument of classify
MaxRegexTokens == 4  \* most fragments after "regex:" in an argument of classify

DfaInputs == SeqUpTo({"0", "1", "a"}, MaxLen)

PdaInputs == SeqUpTo({"(", ")", "x"}, MaxLen)

ClassifyTokens ==
    {T_help, T_clear, T_daily, T_everyday, T_parse, T_dfa, T_pda, T_regex,
     <<"H", "E", "L", "P">>, <<"1", "+", "2">>, <<" ">>, <<"x">>}

RegexTokens ==
    {<<" ", "a", "+">>, <<";">>, <<" ", "s", "t", "r", "i", "n", "g", ":", " ">>,
     <<"S", "T", "R", "I", "N", "G", " ", ":">>, <<"a", "a", "a">>, <<"\n">>}

ClassifyInputs ==
    {Flatten(ts) : ts \in SeqUpTo(ClassifyTokens, MaxTokens)}
    \cup {T_regex \o Flatten(ts) : ts \in SeqUpTo(RegexTokens, MaxRegexTokens)}

NoResult == "none"

InitTools ==
    /\ fn_name \in {"dfa", "pda", "classify"}
    /\ fn_in \in (CASE fn_name = "dfa" -> DfaInputs
                    [] fn_name = "pda" -> PdaInputs
                    [] OTHER -> ClassifyInputs)
    /\ fn_out = NoResult
    /\ fn_pc = "ready"
    /\ history = <<>> /\ clock = 0 /\ added = <<>>
    /\ available = FALSE
    /\ ncalls = 0 /\ nvaried = 0 /\ lastOp = "none"
    /\ lastText = <<>> /\ lastReply = NoResult
    /\ req = <<>>

CallDfa ==
    /\ fn_name = "dfa" /\ fn_pc = "ready"
    /\ fn_out' = check_dfa_ends_01(fn_in)
    /\ fn_pc' = "done"
    /\ UNCHANGED <<fn_name, fn_in, dmVars, available, callVars, req>>

CallPda ==
    /\ fn_name = "pda" /\ fn_pc = "ready"
    /\ fn_out' = check_pda_balanced(fn_in)
    /\ fn_pc' = "done"
    /\ UNCHANGED <<fn_name, fn_in, dmVars, available, callVars, req>>

CallClassify ==
    /\ fn_name = "classify" /\ fn_pc = "ready"
    /\ fn_out' = classify(fn_in)
    /\ fn_pc' = "done"
    /\ UNCHANGED <<fn_name, fn_in, dmVars, available, callVars, req>>

NextTools == CallDfa \/ CallPda \/ CallClassify

SpecTools == InitTools /\ [][NextTools]_vars

DfaDone == fn_name = "dfa" /\ fn_pc = "done"
PdaDone == fn_name = "pda" /\ fn_pc = "done"
ClassifyDone == fn_name = "classify" /\ fn_pc = "done"

\* C5: check_dfa_ends_01 answers the invalid-input error when the string holds
\* a character other than 0 and 1, and otherwise (the empty string included)
\* accepts when the last two characters are "01" and rejects when they are not.
C5_DfaThreeWay ==
    DfaDone =>
        fn_out = IF \E i \in 1..Len(fn_in) : fn_in[i] \notin {"0", "1"} THEN R_Invalid
                 ELSE IF Len(fn_in) >= 2 /\ fn_in[Len(fn_in) - 1] = "0"
                         /\ fn_in[Len(fn_in)] = "1"
                      THEN R_Accepted
                 ELSE R_Rejected

\* number of characters c among the first k of s
CountIn(s, k, c) == Cardinality({i \in 1..k : s[i] = c})

\* the "(" / ")" subsequence of s is properly nested
ProperlyNested(s) ==
    /\ \A k \in 0..Len(s) : CountIn(s, k, "(") >= CountIn(s, k, ")")
    /\ CountIn(s, Len(s), "(") = CountIn(s, Len(s), ")")

\* C6: check_pda_balanced answers Balanced exactly when every prefix holds at
\* least as many "(" as ")" and the totals are equal, and Unbalanced otherwise;
\* the other characters play no part.
C6_PdaNested ==
    PdaDone =>
        /\ fn_out \in {R_Balanced, R_Unbalanced}
        /\ fn_out = R_Balanced <=> ProperlyNested(fn_in)

\* C6 witness: a nested string with an ignored character has been accepted
C6_Witness ==
    PdaDone /\ fn_in = <<"(", "x", "(", ")", ")">> /\ fn_out = R_Balanced

\* the argument of classify, trimmed, and trimmed and lower-cased
ArgTrimmed == strip(fn_in)
ArgLower == lower(strip(fn_in))

IsDailyText(l) == contains(l, T_daily) \/ contains(l, T_everyday)

\* the rules of classify in their priority order, and the tag of each
RuleHolds(l) ==
    <<l = T_help, l = T_clear, IsDailyText(l), startswith(l, T_parse),
      startswith(l, T_dfa), startswith(l, T_pda), startswith(l, T_regex),
      Len(l) >= 1 /\ \A i \in 1..Len(l) : l[i] \in MathChars, TRUE>>

RuleTag ==
    <<"help", "command", "daily", "parse", "dfa", "pda", "regex", "math", "general">>

FirstRule(l) ==
    LET holds == RuleHolds(l)
    IN  CHOOSE n \in 1..9 : holds[n] /\ \A m \in 1..(n - 1) : ~holds[m]

Intents == {RuleTag[n] : n \in 1..9}

\* C8: classify returns exactly one tag, that of the first rule in the order
\* help, clear, daily, parse, dfa, pda, regex, math, general that the trimmed,
\* lower-cased text matches; empty and whitespace-only text is general.
C8_FirstMatchWins ==
    ClassifyDone =>
        /\ fn_out.intent \in Intents
        /\ fn_out.intent = RuleTag[FirstRule(ArgLower)]
        /\ (ArgTrimmed = <<>> => fn_out.intent = "general")

\* C8 witness: a text with the prefix "parse:" that holds "daily conversation"
\* has been classified, as daily
C8_Witness ==
    /\ ClassifyDone
    /\ fn_in = T_parse \o T_daily
    /\ fn_out.intent = "daily"

\* the part of a "regex:" text after its first ":", and that part's pieces
RegexTail == SubSeq(ArgTrimmed, Len(T_regex) + 1, Len(ArgTrimmed))
HasSemicolon == \E i \in 1..Len(RegexTail) : RegexTail[i] = ";"
FirstSemicolon == CHOOSE i \in 1..Len(RegexTail) :
    RegexTail[i] = ";" /\ \A j \in 1..(i - 1) : RegexTail[j] # ";"
RegexPatternPart ==
    IF HasSemicolon THEN SubSeq(RegexTail, 1, FirstSemicolon - 1) ELSE RegexTail
RegexRestPart ==
    IF HasSemicolon THEN SubSeq(RegexTail, FirstSemicolon + 1, Len(RegexTail)) ELSE <<>>

\* the places in s where "string", whitespace or none, ":" starts, ignoring
\* case, each with the place of its ":"
StringSpaceColonAt(s) ==
    {p \in (1..Len(s)) \X (1..Len(s)) :
        /\ p[2] >= p[1] + 6
        /\ lower(SubSeq(s, p[1], p[1] + 5)) = T_string
        /\ \A k \in (p[1] + 6)..(p[2] - 1) : s[k] \in Whitespace
        /\ s[p[2]] = ":"}

SetMax(S) == CHOOSE x \in S : \A y \in S : y <= x
SetMin(S) == CHOOSE x \in S : \A y \in S : x <= y

IsRegexText == startswith(ArgLower, T_regex) /\ ~IsDailyText(ArgLower)

\* the place of the ":" of the "string", optional whitespace, ":" that starts at i
ColonOf(s, i) == CHOOSE c \in 1..Len(s) : <<i, c>> \in StringSpaceColonAt(s)

\* C7 as stated: for a "regex:" text, pattern is the trimmed text between the
\* first ":" and the first ";", and string is the trimmed text after the last
\* "string:" of the part behind that ";", empty when there is none. ("string:"
\* is read as the code matches it, whitespace allowed before the ":".)
C7_RegexLastString ==
    (ClassifyDone /\ IsRegexText) =>
        /\ fn_out.intent = "regex"
        /\ fn_out.params.pattern = strip(RegexPatternPart)
        /\ fn_out.params.string =
              IF StringSpaceColonAt(RegexRestPart) = {} THEN <<>>
              ELSE LET last == SetMax({p[1] : p \in StringSpaceColonAt(RegexRestPart)})
                   IN  strip(SubSeq(RegexRestPart, ColonOf(RegexRestPart, last) + 1,
                                    Len(RegexRestPart)))

\* C7 amended: for a "regex:" text, pattern is the trimmed text between the
\* first ":" and the first ";" (the end of the text when it has no ";"), and
\* string is the trimmed text after the first "string", optional whitespace,
\* ":" of the part behind that ";", empty when there is none.
C7_RegexFirstString ==
    (ClassifyDone /\ IsRegexText) =>
        /\ fn_out.intent = "regex"
        /\ fn_out.params.pattern = strip(RegexPatternPart)
        /\ fn_out.params.string =
              IF StringSpaceColonAt(RegexRestPart) = {} THEN <<>>
              ELSE LET first == SetMin({p[1] : p \in StringSpaceColonAt(RegexRestPart)})
                   IN  strip(SubSeq(RegexRestPart, ColonOf(RegexRestPart, first) + 1,
                                    Len(RegexRestPart)))

\* C7 witness: "regex: a+; string: aaa" has been classified, with pattern "a+"
\* and string "aaa"
C7_Witness ==
    /\ ClassifyDone
    /\ fn_in = T_regex \o <<" ", "a", "+", ";", " ", "s", "t", "r", "i", "n", "g", ":", " ",
                            "a", "a", "a">>
    /\ fn_out.intent = "regex"
    /\ fn_out.params.pattern = <<"a", "+">>
    /\ fn_out.params.string = <<"a", "a", "a">>

-----------------------------------------------------------------------------
(* One chatbot used by one caller at a time                                *)

MaxFill == 15    \* opening calls of a run that send the filler text: 15 fill the history
MaxFree == 2     \* calls of a run, after the opening ones, that send any text

FillerText == <<"h", "i">>

\* one text of every intent, some with blanks around them and capitals
Texts ==
    {FillerText, <<" ", "H", "E", "L", "P", "\n">>, <<"C", "l", "e", "a", "r", " ">>,
     T_daily, T_parse \o <<" ", "x">>, T_dfa \o <<"0", "1">>,
     T_pda \o <<"(", ")", ")">>, T_regex \o <<"a", ";", "s", "t", "r", "i", "n", "g", ":", "a">>,
     <<" ", "1", "+", "2">>}

Init ==
    /\ history = <<>> /\ clock = 0 /\ added = <<>>
    /\ available \in BOOLEAN
    /\ ncalls = 0 /\ nvaried = 0 /\ lastOp = "none"
    /\ lastText = <<>> /\ lastReply = NoResult
    /\ req = <<>>
    /\ fn_name = "none" /\ fn_in = <<>> /\ fn_out = NoResult /\ fn_pc = "done"

\* a call of the opening run: the filler text, while no other call was made
Opening(text) == text = FillerText /\ nvaried = 0 /\ ncalls < MaxFill

\* HybridChatbot.chat(text), from call to return
Chat ==
    \E text \in Texts :
        /\ Opening(text) \/ nvaried < MaxFree
        /\ \E reply \in chatReplies(text, available) :
            /\ history' = chatHistory(history, text, reply, clock)
            /\ added' = chatAdded(added, text, reply, clock)
            /\ clock' = IF classify(text).intent \in {"command", "help"} THEN clock ELSE clock + 2
            /\ lastText' = text
            /\ lastReply' = reply
        /\ nvaried' = IF Opening(text) THEN nvaried ELSE nvaried + 1
        /\ ncalls' = ncalls + 1
        /\ lastOp' = "chat"
        /\ UNCHANGED <<available, req, fnVars>>

Next == Chat

Spec == Init /\ [][Next]_vars

-----------------------------------------------------------------------------
(* The DialogueManager on its own, add and clear called in any order       *)

MaxAdds == 31    \* add and clear calls in a run: one more than the capacity
MaxVaried == 1   \* calls in a run that are not an add of the filler Turn

FillerTurn == <<"user", FillerText>>

TurnInputs == {"user", "assistant"} \X {FillerText, <<"y", "o">>}

InitDM ==
    /\ history = <<>> /\ clock = 0 /\ added = <<>>
    /\ available = FALSE
    /\ ncalls = 0 /\ nvaried = 0 /\ lastOp = "none"
    /\ lastText = <<>> /\ lastReply = NoResult
    /\ req = <<>>
    /\ fn_name = "none" /\ fn_in = <<>> /\ fn_out = NoResult /\ fn_pc = "done"

\* DialogueManager.add(role, message)
DMAdd ==
    /\ ncalls < MaxAdds
    /\ \E in \in TurnInputs :
        /\ in # FillerTurn => nvaried < MaxVaried
        /\ history' = add(history, in[1], in[2], clock)
        /\ added' = Append(added, Turn(in[1], in[2], clock))
        /\ nvaried' = IF in = FillerTurn THEN nvaried ELSE nvaried + 1
    /\ clock' = clock + 1
    /\ ncalls' = ncalls + 1
    /\ lastOp' = "add"
    /\ UNCHANGED <<available, lastText, lastReply, req, fnVars>>

\* DialogueManager.clear()
DMClear ==
    /\ ncalls < MaxAdds
    /\ nvaried < MaxVaried
    /\ history' = clear(history)
    /\ added' = <<>>
    /\ nvaried' = nvaried + 1
    /\ ncalls' = ncalls + 1
    /\ lastOp' = "clear"
    /\ UNCHANGED <<clock, available, lastText, lastReply, req, fnVars>>

NextDM == DMAdd \/ DMClear

SpecDM == InitDM /\ [][NextDM]_vars

\* the last n entries of s
LastN(s, n) == SubSeq(s, Len(s) - n + 1, Len(s))

Min(a, b) == IF a <= b THEN a ELSE b

\* C2: after k adds since creation or the last clear, get_history() is the
\* last min(k, 30) added Turns in the order they were added, so it never holds
\* more than 30; after 31 adds it holds 30, the oldest being the second added.
C2_BoundedFifo ==
    /\ Len(get_history) <= 30
    /\ get_history = LastN(added, Min(Len(added), 30))
    /\ \A i \in 1..(Len(get_history) - 1) :
          get_history[i].timestamp < get_history[i + 1].timestamp
    /\ Len(added) = 31 => Len(get_history) = 30 /\ get_history[1] = added[2]

\* C2 witness: 31 Turns have been added and the first has been evicted
C2_Witness ==
    /\ Len(added) = 31
    /\ Len(get_history) = 30
    /\ get_history[1] = added[2]
    /\ get_history[30] = added[31]

-----------------------------------------------------------------------------
(* Claims about the chatbot used by one caller at a time (Spec)            *)

\* the intent of the text of the call that has just returned
LastIntent == classify(lastText).intent

\* the two newest entries of the history are the user Turn of the last call's
\* text and then the assistant Turn of its reply
LastPairRecorded ==
    /\ Len(history) >= 2
    /\ history[Len(history) - 1].role = "user"
    /\ history[Len(history) - 1].message = lastText
    /\ history[Len(history)].role = "assistant"
    /\ history[Len(history)].message = lastReply

\* C1: a chat call whose intent is neither help nor clear appends exactly two
\* Turns, the user Turn with the text as given and then the assistant Turn
\* with the reply it returns; the earlier entries stay as they were, in order,
\* but for the oldest ones evicted at capacity.
C1_TwoTurnsAppended ==
    [][(ncalls' = ncalls + 1 /\ lower(strip(lastText')) \notin {T_help, T_clear}) =>
          /\ LastPairRecorded'
          /\ Len(history') = Min(Len(history) + 2, 30)
          /\ SubSeq(history', 1, Len(history') - 2) = LastN(history, Len(history') - 2)
          /\ clock' = clock + 2]_vars

\* C1 witness: a dfa call has returned with the history at capacity, its two
\* Turns the newest entries
C1_Witness ==
    /\ lastOp = "chat" /\ clock > 30 /\ Len(history) = 30
    /\ lastText = T_dfa \o <<"0", "1">>
    /\ lastReply = R_Accepted
    /\ LastPairRecorded

\* C3: a chat call whose trimmed, lower-cased text is "help" returns the help
\* text and leaves the history as it was; one whose trimmed, lower-cased text
\* is "clear" returns the confirmation and leaves the history empty; neither
\* records a Turn.
C3_MetaCommands ==
    [][ncalls' = ncalls + 1 =>
          /\ lower(strip(lastText')) = T_help =>
                history' = history /\ lastReply' = R_Help /\ clock' = clock
          /\ lower(strip(lastText')) = T_clear =>
                history' = <<>> /\ lastReply' = R_Cleared /\ clock' = clock]_vars

\* C3 witness: help, with blanks around it and in upper case, has been
\* answered with the history full
C3_Witness ==
    /\ lastOp = "chat" /\ Len(history) = 30
    /\ lastText = <<" ", "H", "E", "L", "P", "\n">>
    /\ lastReply = R_Help

\* C4: after a chat call of daily intent the user Turn of its text and the
\* assistant Turn of its reply are the newest entries of the history; the
\* reply is the not-configured message when the collaborator is unavailable,
\* and the collaborator's answer or a diagnostic, never empty, when it is
\* available.
C4_DailyRecorded ==
    (lastOp = "chat" /\ LastIntent = "daily") =>
        /\ LastPairRecorded
        /\ ~available => lastReply = R_NotConfigured
        /\ available =>
              lastReply \in {R_LLM, R_NoContent, R_ApiError, R_Exception, R_NoRespond}

\* C4 witness: the collaborator's call has raised and the diagnostic has been
\* recorded as the assistant Turn
C4_Witness ==
    /\ lastOp = "chat" /\ available
    /\ lastText = T_daily
    /\ lastReply = R_Exception
    /\ LastPairRecorded

\* C10: between chat calls the history has even length and is a sequence of
\* pairs, a user Turn and right after it the assistant Turn with the reply
\* to it, so it never starts with an assistant Turn.
C10_PairedHistory ==
    /\ Len(history) % 2 = 0
    /\ \A i \in 1..Len(history) :
          IF i % 2 = 1
          THEN /\ history[i].role = "user"
               /\ i + 1 <= Len(history)
               /\ history[i + 1].role = "assistant"
               /\ history[i + 1].timestamp = history[i].timestamp + 1
               /\ history[i + 1].message \in chatReplies(history[i].message, available)
          ELSE history[i].role = "assistant"

\* C10 witness: the history is full and its oldest pair has been evicted
C10_Witness ==
    /\ Len(history) = 30
    /\ history[1].timestamp = 2
    /\ history[1].role = "user"
    /\ history[30].role = "assistant"

-----------------------------------------------------------------------------
(* The one chatbot of create_web_app, shared by requests served by         *)
(* concurrent threads. A thread can be switched out between any two        *)
(* statements of HybridChatbot.chat, so a request takes one step up to its *)
(* first call on the dialogue, and one step for each call on it.           *)

MaxRequests == 2     \* requests in flight in a run

Requests == 1..MaxRequests

ConcTexts == {FillerText, T_help, T_clear, T_daily, T_dfa \o <<"0", "1">>}

idleRequest == [pc |-> "idle", text |-> <<>>, reply |-> NoResult, userAt |-> -1, asstAt |-> -1]

InitConc ==
    /\ history = <<>> /\ clock = 0 /\ added = <<>>
    /\ available \in BOOLEAN
    /\ ncalls = 0 /\ nvaried = 0 /\ lastOp = "none"
    /\ lastText = <<>> /\ lastReply = NoResult
    /\ req = [r \in Requests |-> idleRequest]
    /\ fn_name = "none" /\ fn_in = <<>> /\ fn_out = NoResult /\ fn_pc = "done"

\* api_chat calls bot.chat(text): classify, then clear and return, or return
\* the help text, or work out the reply that the two adds will record
ReqBegin(r) ==
    /\ req[r].pc = "idle"
    /\ \E text \in ConcTexts : \E reply \in chatReplies(text, available) :
        LET c == classify(text)
        IN  IF c.intent = "command" /\ c.params.cmd = "clear"
            THEN /\ history' = clear(history)
                 /\ added' = <<>>
                 /\ req' = [req EXCEPT ![r] = [@ EXCEPT !.pc = "done", !.text = text,
                                                        !.reply = reply]]
            ELSE IF c.intent = "help"
            THEN /\ req' = [req EXCEPT ![r] = [@ EXCEPT !.pc = "done", !.text = text,
                                                        !.reply = reply]]
                 /\ UNCHANGED <<history, added>>
            ELSE /\ req' = [req EXCEPT ![r] = [@ EXCEPT !.pc = "replied", !.text = text,
                                                        !.reply = reply]]
                 /\ UNCHANGED <<history, added>>
    /\ ncalls' = ncalls + 1
    /\ lastOp' = "chat"
    /\ UNCHANGED <<clock, available, nvaried, lastText, lastReply, fnVars>>

\* self.dialogue.add("user", text)
ReqAddUser(r) ==
    /\ req[r].pc = "replied"
    /\ history' = add(history, "user", req[r].text, clock)
    /\ added' = Append(added, Turn("user", req[r].text, clock))
    /\ clock' = clock + 1
    /\ req' = [req EXCEPT ![r] = [@ EXCEPT !.pc = "userAdded", !.userAt = clock]]
    /\ lastOp' = "add"
    /\ UNCHANGED <<available, ncalls, nvaried, lastText, lastReply, fnVars>>

\* self.dialogue.add("assistant", reply), and the return of the reply
ReqAddAssistant(r) ==
    /\ req[r].pc = "userAdded"
    /\ history' = add(history, "assistant", req[r].reply, clock)
    /\ added' = Append(added, Turn("assistant", req[r].reply, clock))
    /\ clock' = clock + 1
    /\ req' = [req EXCEPT ![r] = [@ EXCEPT !.pc = "done", !.asstAt = clock]]
    /\ lastOp' = "add"
    /\ UNCHANGED <<available, ncalls, nvaried, lastText, lastReply, fnVars>>

NextConc == \E r \in Requests : ReqBegin(r) \/ ReqAddUser(r) \/ ReqAddAssistant(r)

SpecConc == InitConc /\ [][NextConc]_vars

\* the places of the history that hold the Turn stamped ts
PlacesOf(ts) == {i \in 1..Len(history) : history[i].timestamp = ts}

\* no request is between its first and its last call on the dialogue
Quiescent == \A r \in Requests : req[r].pc \in {"idle", "done"}

\* C9: with the chatbot shared by concurrent requests, the two Turns of a
\* request go into the history together: once no request is in the middle of
\* its update, the history holds both Turns of a request, the assistant Turn
\* right after the user Turn, or neither of them.
C9_PairsTogether ==
    Quiescent =>
        \A r \in Requests :
            req[r].userAt >= 0 =>
                /\ PlacesOf(req[r].userAt) = {} <=> PlacesOf(req[r].asstAt) = {}
                /\ \A i \in PlacesOf(req[r].userAt) : i + 1 \in PlacesOf(req[r].asstAt)

====
